---------------------------- MODULE Spec2Model ----------------------------
(***************************************************************************)
(* SUDEPmonitor: the local pickle cache and User assembly of sudep.py, and *)
(* the windowed statistics of sudep_HRV.py and sudep_pdf.py.               *)
(*                                                                         *)
(* Three specifications share the module:                                  *)
(*   Spec       get_user / User / save / load against a remote store that  *)
(*              other clients change, and the folder 'Users';              *)
(*   SpecDates  get_session_dates_for on the user nodes a store can hold;  *)
(*   SpecStats  SD, CSI, windowed_sample_variance and mark_high_var        *)
(*              applied to bounded signals.                                *)
(***************************************************************************)
EXTENDS Integers, Sequences, FiniteSets, TLC

VARIABLES
    remote,     \* the remote JSON store, per user node
    nChanges,   \* number of changes made to the remote store so far
    nCalls,     \* number of calls made so far
    dirExists,  \* whether the folder 'Users' exists
    files,      \* the files of folder 'Users': file name -> bytes written
    pc,         \* position of the call in progress, "idle" between calls
    call,       \* the call in progress or, between calls, the last call
    prev,       \* the call before `call`, when that was a save
    ret,        \* what the last call returned or raised
    held,       \* the User object the caller holds (the last one returned)
    building,   \* the User under construction in User.__init__
    files0,     \* the files of folder 'Users' when `call` started
    reads,      \* the remote reads made by `call`, in order
    stdout,     \* the lines printed by `call`
    signal,     \* numpy array handed to the windowed statistics
    window,     \* num_points / window argument
    stat        \* the last statistics call and what it returned

cacheVars == <<remote, nChanges, nCalls, dirExists, files, pc, call, prev, ret, held,
               building, files0, reads, stdout>>
statVars == <<signal, window, stat>>
vars == <<cacheVars, statVars>>

(***************************************************************************)
(* Bounds of the statistics model.                                         *)
(***************************************************************************)
MaxLen == 5
MaxWindow == 4

SampleValues == {1, 10}

\* Beat intervals 0.8 s and 0.9 s in turn, in units of 0.1 s.  SD1 and SD2
\* are homogeneous in the unit: SD(10 * beats) = 10 * SD(beats).
AlternatingBeats == <<8, 9, 8, 9, 8, 9>>

\* A step from 1 to 10 half way through.
JumpSignal == <<1, 1, 1, 1, 10, 10, 10, 10>>

\* Every signal over SampleValues up to MaxLen samples, and the two above.
Signals ==
    UNION {[1..k -> SampleValues] : k \in 0..MaxLen} \cup {AlternatingBeats, JumpSignal}

(***************************************************************************)
(* numpy helpers.  Arrays are sequences (index 0 of the code is index 1    *)
(* here); a 2-d array is a sequence of rows.                               *)
(***************************************************************************)
RECURSIVE Sum(_)
Sum(s) == IF s = <<>> THEN 0 ELSE Head(s) + Sum(Tail(s))

SumSq(s) == Sum([i \in 1..Len(s) |-> s[i] * s[i]])

\* Len(v)^2 times the population variance np.var(v) / np.std(v)^2 of v;
\* 0 for an empty v.
ScaledVar(v) == Len(v) * SumSq(v) - Sum(v) * Sum(v)

\* Python's s[lo:hi] with 0-based bounds; negative bounds count from the end.
PySlice(s, lo, hi) ==
    LET L == Len(s)
        norm(i) == IF i < 0 THEN (IF L + i < 0 THEN 0 ELSE L + i)
                   ELSE (IF i > L THEN L ELSE i)
    IN  SubSeq(s, norm(lo) + 1, norm(hi))

\* np.sum(np.mgrid[0:n, 0:w], axis=0): n rows of w entries, [i][j] = i + j;
\* no rows when n <= 0 (np.arange(0, n) is empty).
MgridSum(n, w) ==
    LET rows == IF n < 0 THEN 0 ELSE n
    IN  [i \in 1..rows |-> [j \in 1..w |-> (i - 1) + (j - 1)]]

\* np.transpose of a 2-d array with ncols columns.
Transpose(m, ncols) == [j \in 1..ncols |-> [i \in 1..Len(m) |-> m[i][j]]]

\* a[indices] for a 2-d array of 0-based indices.
Take(a, indices) ==
    [i \in 1..Len(indices) |-> [j \in 1..Len(indices[i]) |-> a[indices[i][j] + 1]]]

\* np.diff(m) of a 2-d array: differences along the last axis.
DiffLastAxis(m) ==
    [i \in 1..Len(m) |->
        [j \in 1..(IF Len(m[i]) = 0 THEN 0 ELSE Len(m[i]) - 1) |-> m[i][j + 1] - m[i][j]]]

(***************************************************************************)
(* sudep_HRV.SD.  An entry of the SD1 (SD2) series is held as the integer  *)
(* 2 * num_points^4 * SD1^2 (SD2^2): with V = num_points * v,              *)
(* ScaledVar(V) = num_points^4 * np.std(v)^2 and SD = np.std(v) / 2^0.5.   *)
(***************************************************************************)
\* Mutant: SD1 taken from the sums x + y and SD2 from the differences x - y.
SD_SumForDifference(beats, num_points) ==
    LET signal_length == Len(beats)
        n == signal_length - num_points + 1
        indices == MgridSum(n, num_points)
        windowed_beats == Take(beats, indices)
        x == PySlice(windowed_beats, 0, n - 1)
        y == PySlice(windowed_beats, 1, n)
        sumx(i) == Sum(x[i])
        sumy(i) == Sum(y[i])
        dev1(i) == [j \in 1..num_points |->
                      num_points * (x[i][j] + y[i][j]) - (sumx(i) + sumy(i))]
        dev2(i) == [j \in 1..num_points |->
                      num_points * (x[i][j] - y[i][j]) + (sumy(i) - sumx(i))]
    IN  << [i \in 1..Len(x) |-> ScaledVar(dev1(i))],
           [i \in 1..Len(x) |-> ScaledVar(dev2(i))] >>

SD(beats, num_points) ==
    LET signal_length == Len(beats)
        n == signal_length - num_points + 1
        indices == MgridSum(n, num_points)
        windowed_beats == Take(beats, indices)
        x == PySlice(windowed_beats, 0, n - 1)
        y == PySlice(windowed_beats, 1, n)
        sumx(i) == Sum(x[i])      \* num_points * meanx[i]
        sumy(i) == Sum(y[i])      \* num_points * meany[i]
        \* num_points * ((x - y) + (meany - meanx)), row i
        dev1(i) == [j \in 1..num_points |->
                      num_points * (x[i][j] - y[i][j]) + (sumy(i) - sumx(i))]
        \* num_points * ((x + y) - (meanx + meany)), row i
        dev2(i) == [j \in 1..num_points |->
                      num_points * (x[i][j] + y[i][j]) - (sumx(i) + sumy(i))]
    IN  << [i \in 1..Len(x) |-> ScaledVar(dev1(i))],
           [i \in 1..Len(x) |-> ScaledVar(dev2(i))] >>

\* The value 1 in the scale of the SD series.
ScaledOne(num_points) == 2 * num_points * num_points * num_points * num_points

\* sudep_HRV.CSI: the series SD2/SD1, each entry held as the pair
\* <<SD2, SD1>> of scaled squares after the SD1 == 0 clamp.  With from_watch
\* the beats are 60.0/heart_rate; the integer model takes it where the
\* quotient is exact.
CSI(heart_data, num_points, from_watch) ==
    LET beats == IF from_watch
                 THEN [i \in 1..Len(heart_data) |-> 60 \div heart_data[i]]
                 ELSE heart_data
        sd == SD(beats, num_points)
        SD1 == sd[1]
        SD2 == sd[2]
    IN  [i \in 1..Len(SD1) |->
            IF SD1[i] = 0
            THEN <<ScaledOne(num_points), ScaledOne(num_points)>>
            ELSE <<SD2[i], SD1[i]>>]

(***************************************************************************)
(* sudep_pdf.windowed_sample_variance.  An entry is window^2 * np.var(..). *)
(***************************************************************************)
windowed_sample_variance(sig, win) ==
    LET grid == MgridSum(Len(sig) - win + 1, win)
        indices == Transpose(grid, win)
        d == DiffLastAxis(Take(sig, indices))
    IN  [i \in 1..Len(d[1]) |-> ScaledVar([j \in 1..win |-> d[j][i]])]

THRESH == 1

\* sudep_pdf.find_high_variance on the scaled series: var > THRESH.
find_high_variance(var, win) == [i \in 1..Len(var) |-> var[i] > win * win * THRESH]

\* sudep_pdf.mark_high_var: the boolean mask is_above_thresh.
mark_high_var(sig, win) ==
    LET var == windowed_sample_variance(sig, win)
        buffer == [i \in 1..(win - 1) |-> FALSE]
    IN  buffer \o find_high_variance(var, win)

(***************************************************************************)
(* Strings that the code slices or compares (session dates, the reserved   *)
(* key) are sequences of character codes.                                  *)
(***************************************************************************)
Str(digits) == [i \in 1..Len(digits) |-> 48 + digits[i]]

Dec23 == Str(<<3,1,1,2,2,3,2,3,5,9,5,9>>)     \* 31.12.23 23:59:59
Jan24 == Str(<<0,1,0,1,2,4,0,0,0,0,0,0>>)     \* 01.01.24 00:00:00
Jun24 == Str(<<1,5,0,6,2,4,1,2,0,0,0,0>>)     \* 15.06.24 12:00:00
Jan24b == Str(<<0,1,0,1,2,4,0,0,0,0,0,1>>)    \* 01.01.24 00:00:01
Tokens == {Dec23, Jan24, Jun24}

MetaDataKey == <<77, 101, 116, 97, 68, 97, 116, 97>>     \* 'MetaData'

Names == {"SM1", "SM9"}

\* The module global user_list, downloaded once at import.
user_list == {"SM1"}

\* Bound on the changes other clients make to the remote store.
MaxChanges == 1

\* Bound on the calls the caller makes.
MaxCalls == 3

(***************************************************************************)
(* JSON documents: null, or an object, held as the function from its keys. *)
(***************************************************************************)
EmptyDict == << >>
JNull == [null |-> TRUE, obj |-> EmptyDict]
JObj(dict) == [null |-> FALSE, obj |-> dict]

ProfileA == ("Date of Birth" :> "01.01.1990") @@ ("Gender" :> "F")
            @@ ("Height (m)" :> "1.70") @@ ("Weight (kg)" :> "60")
ProfileValues == {JNull, JObj(ProfileA)}

EventsA == (Dec23 :> "Seizure")

\* The session node stored under a date: Jan24 was recorded without
\* heart-rate data.
SessionJson(date) ==
    LET accel == [x |-> <<1, 1, 10>>, y |-> <<1, 10, 1>>, z |-> <<10, 1, 1>>]
        heart == [Times |-> <<0, 5, 10>>, Heartrate |-> <<60, 60, 6>>]
        base == ("Accelerometer sampling frequency" :> 50)
                @@ ("Duration" :> (IF date = Dec23 THEN "3600" ELSE "60"))
                @@ ("Accelerometer data" :> accel)
    IN  IF date = Jan24 THEN base ELSE base @@ ("Heartrate data" :> heart)

\* The shallow listing of a user node: its child keys, each mapped to true.
\* The MetaData child exists while it has a Profile or an Events child.
Listing(node) ==
    LET keys == (IF node.Profile # JNull \/ node.Events # JNull
                 THEN {MetaDataKey} ELSE {}) \cup node.sessions
    IN  IF keys = {} THEN JNull ELSE JObj([k \in keys |-> TRUE])

\* The URLs the code builds from base_url.
ProfileUrl(user) == [user |-> user, node |-> "MetaData/Profile", session |-> << >>]
EventsUrl(user) == [user |-> user, node |-> "MetaData/Events", session |-> << >>]
ShallowUrl(user) == [user |-> user, node |-> "?shallow=true", session |-> << >>]
SessionUrl(user, session) == [user |-> user, node |-> "session", session |-> session]

\* What requests.get(url).json() decodes.
JsonAt(store, url) ==
    LET node == store[url.user]
    IN  CASE url.node = "MetaData/Profile" -> node.Profile
          [] url.node = "MetaData/Events" -> node.Events
          [] url.node = "?shallow=true" -> Listing(node)
          [] OTHER -> IF url.session \in node.sessions
                      THEN JObj(SessionJson(url.session)) ELSE JNull

\* Mutant: a failed request is swallowed and handed on as {}.
download_json_data_from_Swallow(store, url, reachable) ==
    IF ~reachable THEN [raised |-> FALSE, json |-> EmptyDict]
    ELSE IF JsonAt(store, url).null THEN [raised |-> FALSE, json |-> EmptyDict]
    ELSE [raised |-> FALSE, json |-> JsonAt(store, url).obj]

\* download_json_data_from(url): requests.get raises when the store cannot be
\* reached; a null document is handed on as {}.
download_json_data_from(store, url, reachable) ==
    IF ~reachable THEN [raised |-> TRUE, json |-> EmptyDict]
    ELSE IF JsonAt(store, url).null THEN [raised |-> FALSE, json |-> EmptyDict]
    ELSE [raised |-> FALSE, json |-> JsonAt(store, url).obj]

\* The entry `reads` keeps of a download.
ReadOf(url, reachable, d) ==
    [url |-> url, ok |-> reachable, empty |-> reachable /\ d.json = EmptyDict]

(***************************************************************************)
(* Values a call returns or raises.                                        *)
(***************************************************************************)
None == [kind |-> "None"]
Pending == [kind |-> "pending"]
Raise(e) == [kind |-> "raise", exc |-> e]
Return(u) == [kind |-> "User", user |-> u]
ReturnList(l) == [kind |-> "list", list |-> l]

(***************************************************************************)
(* Profile.__init__ and Session.__init__ on a downloaded document: the     *)
(* object, or the KeyError of a subscript on a missing key.                *)
(***************************************************************************)
Empty == [Empty |-> TRUE]      \* the string 'Empty' of Session

Profile(profile) ==
    IF {"Date of Birth", "Gender", "Height (m)", "Weight (kg)"} \subseteq DOMAIN profile
    THEN [ok |-> TRUE,
          val |-> [dob |-> profile["Date of Birth"], gender |-> profile["Gender"],
                   height |-> profile["Height (m)"], weight |-> profile["Weight (kg)"]]]
    ELSE [ok |-> FALSE, val |-> Raise("KeyError")]

_convert_accel_data_to_array_for(session) ==
    IF "Accelerometer data" \in DOMAIN session
    THEN LET accel == session["Accelerometer data"]
         IN  [x |-> accel.x, y |-> accel.y, z |-> accel.z]
    ELSE Empty

_convert_heart_data_to_array_for(session) ==
    IF "Heartrate data" \in DOMAIN session
    THEN LET heart_data == session["Heartrate data"]
         IN  [times |-> heart_data.Times, heart_rate |-> heart_data.Heartrate]
    ELSE Empty

Session(session) ==
    IF {"Accelerometer sampling frequency", "Duration"} \subseteq DOMAIN session
    THEN [ok |-> TRUE,
          val |-> [accel_sampling_freq |-> session["Accelerometer sampling frequency"],
                   duration |-> session["Duration"],
                   accel_data |-> _convert_accel_data_to_array_for(session),
                   heart_data |-> _convert_heart_data_to_array_for(session)]]
    ELSE [ok |-> FALSE, val |-> Raise("KeyError")]

(***************************************************************************)
(* _lex and _date_sort.                                                    *)
(***************************************************************************)
\* str < str of Python: by character code, a proper prefix first.
StrLess(a, b) ==
    \E i \in 1..Len(b) :
        /\ \A j \in 1..(i - 1) : j <= Len(a) /\ a[j] = b[j]
        /\ Len(a) >= i - 1
        /\ (Len(a) = i - 1 \/ a[i] < b[i])

\* tuple < tuple of Python on tuples of strings of one length.
TupleLess(k1, k2) ==
    \E i \in 1..Len(k1) :
        /\ \A j \in 1..(i - 1) : k1[j] = k2[j]
        /\ StrLess(k1[i], k2[i])

\* Mutant: the key takes the fields in the order the date writes them.
DateKey_AsWritten(x) == << PySlice(x, 0, 2), PySlice(x, 2, 4), PySlice(x, 4, 6),
                           PySlice(x, 6, 8), PySlice(x, 8, 10), PySlice(x, 10, 12) >>

\* The sort key of _date_sort.
DateKey(x) == << PySlice(x, 4, 6), PySlice(x, 2, 4), PySlice(x, 0, 2),
                 PySlice(x, 6, 8), PySlice(x, 8, 10), PySlice(x, 10, 12) >>

\* list.sort(key=...) is stable: an element goes behind the elements whose
\* key is not greater.
RECURSIVE InsertByKey(_, _)
InsertByKey(sorted, x) ==
    IF sorted = << >> THEN <<x>>
    ELSE IF TupleLess(DateKey(x), DateKey(sorted[Len(sorted)]))
         THEN Append(InsertByKey(SubSeq(sorted, 1, Len(sorted) - 1), x),
                     sorted[Len(sorted)])
         ELSE Append(sorted, x)

RECURSIVE _date_sort(_)
_date_sort(dates) ==
    IF dates = << >> THEN << >>
    ELSE InsertByKey(_date_sort(SubSeq(dates, 1, Len(dates) - 1)), dates[Len(dates)])

_lex(date) ==
    LET characters == << <<46>>, <<46>>, <<32>>, <<58>>, <<58>>, << >> >>
        piece(iChar) == PySlice(date, iChar * 2, iChar * 2 + 2) \o characters[iChar + 1]
    IN  piece(0) \o piece(1) \o piece(2) \o piece(3) \o piece(4) \o piece(5)

\* dict.keys(): the keys in some order.
Orderings(S) ==
    {s \in [1..Cardinality(S) -> S] : \A i, j \in 1..Cardinality(S) : i # j => s[i] # s[j]}

_lex_multiple(keys) == _date_sort([i \in 1..Len(keys) |-> _lex(keys[i])])

\* get_session_dates_for past the download: user_dates is the downloaded
\* listing and keys the order its dict hands out the remaining keys.
get_session_dates_for(user_dates, keys, readable) ==
    IF MetaDataKey \notin DOMAIN user_dates
    THEN Raise("KeyError")
    ELSE IF readable THEN ReturnList(_lex_multiple(keys))
         ELSE ReturnList(_date_sort(keys))

(***************************************************************************)
(* The pickle files of folder 'Users'.  A protocol 2 stream is the PROTO   *)
(* opcode, the opcodes that rebuild the instance from its class and its    *)
(* __dict__, and STOP; cPickle.load needs the whole stream.                *)
(***************************************************************************)
FileName(name) == <<name, ".pkl">>

cPickle_dump(user) ==
    << "PROTO 2",
       [class |-> "User",
        dict |-> << user.user_name, user.profile, user.events, user.sessions,
                    user.dates >>],
       "STOP" >>

cPickle_load(bytes) ==
    IF Len(bytes) = 3 /\ bytes[1] = "PROTO 2" /\ bytes[3] = "STOP"
    THEN LET dict == bytes[2].dict
         IN  Return([user_name |-> dict[1], profile |-> dict[2], events |-> dict[3],
                     sessions |-> dict[4], dates |-> dict[5]])
    ELSE Raise("EOFError")

\* Mutant: the listing is searched for the bare name, without '.pkl'.
_is_file_in_directory_NoSuffix(fs, name) == <<name, "">> \in DOMAIN fs

_is_file_in_directory(fs, name) == FileName(name) \in DOMAIN fs

\* Mutant: save without the update == False test.
save_IgnoreUpdate(fs, user, update, written) ==
    LET bytes == cPickle_dump(user)
    IN  [files |-> (FileName(user.user_name) :> SubSeq(bytes, 1, written)) @@ fs,
         ret |-> IF written = Len(bytes) THEN None ELSE Raise("IOError")]

\* save(user, update) on the files fs.  open(file_path, 'wb') creates or
\* truncates the file, then cPickle.dump writes; `written` is how much of the
\* stream reaches the file before the write fails, all of it when it does not.
save(fs, user, update, written) ==
    IF update = FALSE /\ _is_file_in_directory(fs, user.user_name)
    THEN [files |-> fs, ret |-> None]
    ELSE LET bytes == cPickle_dump(user)
         IN  [files |-> (FileName(user.user_name) :> SubSeq(bytes, 1, written)) @@ fs,
              ret |-> IF written = Len(bytes) THEN None ELSE Raise("IOError")]

\* load(user_name) on the files fs.
load(fs, user_name) ==
    IF FileName(user_name) \in DOMAIN fs
    THEN cPickle_load(fs[FileName(user_name)])
    ELSE Raise("IOError")

WriteOutcomes == 0..3

(***************************************************************************)
(* State after import.                                                     *)
(***************************************************************************)
NoBuild == [profile |-> EmptyDict, events |-> EmptyDict, sessions |-> EmptyDict,
            todo |-> << >>]
NoCall == [op |-> "none", name |-> "", flag |-> FALSE]
NoPrev == [op |-> "other", name |-> "", flag |-> FALSE, ok |-> TRUE, arg |-> None]

InitRemote ==
    [u \in Names |->
        IF u = "SM1"
        THEN [Profile |-> JObj(ProfileA), Events |-> JObj(EventsA),
              sessions |-> {Dec23, Jan24}]
        ELSE [Profile |-> JObj(ProfileA), Events |-> JNull, sessions |-> {Jun24}]]

InitLocal ==
    /\ nChanges = 0
    /\ nCalls = 0
    /\ dirExists = FALSE
    /\ files = EmptyDict
    /\ pc = "idle"
    /\ call = NoCall
    /\ prev = NoPrev
    /\ ret = None
    /\ held = None
    /\ building = NoBuild
    /\ files0 = EmptyDict
    /\ reads = << >>
    /\ stdout = << >>

InitCacheVars == remote = InitRemote /\ InitLocal

(***************************************************************************)
(* Other clients of the remote store change it at any time: a profile is   *)
(* written or deleted, a session is uploaded or deleted.                   *)
(***************************************************************************)
\* The user nodes other clients write to.
Changing == {"SM1"}

RemoteChange ==
    /\ nChanges < MaxChanges
    /\ nChanges' = nChanges + 1
    /\ \E u \in Changing :
          \/ \E p \in ProfileValues \ {remote[u].Profile} :
                remote' = [remote EXCEPT ![u].Profile = p]
          \/ \E d \in Tokens \ remote[u].sessions :
                remote' = [remote EXCEPT ![u].sessions = @ \cup {d}]
          \/ \E d \in remote[u].sessions :
                remote' = [remote EXCEPT ![u].sessions = @ \ {d}]
    /\ UNCHANGED <<nCalls, dirExists, files, pc, call, prev, ret, held, building,
                   files0, reads, stdout>>
    /\ UNCHANGED statVars

(***************************************************************************)
(* Calls.  A call that downloads nothing is one step; a call that          *)
(* downloads is a step per download, the store being free to change in     *)
(* between.                                                                *)
(***************************************************************************)
\* Bookkeeping at the start of a call.
Enter(op, name, flag) ==
    /\ pc = "idle"
    /\ nCalls < MaxCalls
    /\ nCalls' = nCalls + 1
    /\ call' = [op |-> op, name |-> name, flag |-> flag]
    /\ prev' = IF call.op = "save"
               THEN [op |-> "save", name |-> call.name, flag |-> call.flag,
                     ok |-> ret.kind # "raise", arg |-> held]
               ELSE NoPrev
    /\ files0' = files

\* _look_for_and_create_users_folder: the lines it prints.
MakingLines == IF dirExists THEN << >> ELSE <<"Making">>

\* Mutant: get_user without the user_list test.
get_user_branch_NoListTest(fs, user_name, reload) ==
    IF _is_file_in_directory(fs, user_name) /\ ~reload THEN "load" ELSE "User"

\* The branch get_user takes.
get_user_branch(fs, user_name, reload) ==
    IF _is_file_in_directory(fs, user_name) /\ ~reload THEN "load"
    ELSE IF user_name \in user_list THEN "User"
    ELSE "print"

\* get_user(user_name, reload)
CallGetUser ==
    /\ \E user_name \in Names, reload \in BOOLEAN :
        /\ Enter("get_user", user_name, reload)
        /\ dirExists' = TRUE
        /\ reads' = << >>
        /\ building' = NoBuild
        /\ UNCHANGED <<remote, nChanges, files>>
        /\ LET branch == get_user_branch(files, user_name, reload)
           IN  CASE branch = "load" ->
                      /\ ret' = load(files, user_name)
                      /\ held' = IF ret'.kind = "User" THEN ret' ELSE held
                      /\ stdout' = MakingLines
                      /\ pc' = "idle"
                 [] branch = "User" ->
                      /\ ret' = Pending
                      /\ stdout' = MakingLines
                      /\ pc' = "profile"
                      /\ UNCHANGED held
                 [] OTHER ->
                      /\ ret' = None
                      /\ stdout' = Append(MakingLines, "does not exist in the database")
                      /\ pc' = "idle"
                      /\ UNCHANGED held
    /\ UNCHANGED statVars

\* User(name), called directly
CallUser ==
    /\ \E name \in Names :
        /\ Enter("User", name, FALSE)
        /\ ret' = Pending
        /\ reads' = << >>
        /\ stdout' = << >>
        /\ pc' = "profile"
        /\ building' = NoBuild
        /\ UNCHANGED <<remote, nChanges, dirExists, files, held>>
    /\ UNCHANGED statVars

\* save(user, update) on the User the caller holds
CallSave ==
    /\ \E update \in BOOLEAN, written \in WriteOutcomes :
        /\ held.kind = "User"
        /\ Enter("save", held.user.user_name, update)
        /\ LET r == save(files, held.user, update, written)
           IN  /\ files' = r.files
               /\ ret' = r.ret
        /\ dirExists' = TRUE
        /\ reads' = << >>
        /\ stdout' = MakingLines
        /\ UNCHANGED <<remote, nChanges, pc, held, building>>
    /\ UNCHANGED statVars

\* load(user_name)
CallLoad ==
    /\ \E user_name \in Names :
        /\ Enter("load", user_name, FALSE)
        /\ ret' = load(files, user_name)
        /\ held' = IF ret'.kind = "User" THEN ret' ELSE held
        /\ reads' = << >>
        /\ stdout' = << >>
        /\ UNCHANGED <<remote, nChanges, dirExists, files, pc, building>>
    /\ UNCHANGED statVars

\* get_session_dates_for(user, readable), one download
CallGetSessionDates ==
    /\ \E user \in Names, readable \in BOOLEAN, reachable \in BOOLEAN :
        LET d == download_json_data_from(remote, ShallowUrl(user), reachable)
        IN  /\ Enter("get_session_dates_for", user, readable)
            /\ reads' = << ReadOf(ShallowUrl(user), reachable, d) >>
            /\ stdout' = << >>
            /\ IF d.raised THEN ret' = Raise("ConnectionError")
               ELSE \E keys \in Orderings(DOMAIN d.json \ {MetaDataKey}) :
                       ret' = get_session_dates_for(d.json, keys, readable)
            /\ UNCHANGED <<remote, nChanges, dirExists, files, pc, held, building>>
    /\ UNCHANGED statVars

(***************************************************************************)
(* User.__init__(name), entered from get_user or directly.                 *)
(***************************************************************************)
\* An exception leaves the call: nothing built is kept, nothing is saved.
Abort(raised) ==
    /\ ret' = raised
    /\ pc' = "idle"
    /\ building' = NoBuild
    /\ UNCHANGED <<dirExists, files, held>>

\* self.profile = Profile(name)
ReadProfile ==
    /\ pc = "profile"
    /\ \E reachable \in BOOLEAN :
        LET d == download_json_data_from(remote, ProfileUrl(call.name), reachable)
            p == Profile(d.json)
        IN  /\ reads' = Append(reads, ReadOf(ProfileUrl(call.name), reachable, d))
            /\ IF d.raised THEN Abort(Raise("ConnectionError"))
               ELSE IF ~p.ok THEN Abort(p.val)
               ELSE /\ building' = [building EXCEPT !.profile = p.val]
                    /\ pc' = "events"
                    /\ UNCHANGED <<ret, dirExists, files, held>>
    /\ UNCHANGED <<remote, nChanges, nCalls, call, prev, files0, stdout>>
    /\ UNCHANGED statVars

\* self.events = get_events_for(name, event_type=True)
ReadEvents ==
    /\ pc = "events"
    /\ \E reachable \in BOOLEAN :
        LET d == download_json_data_from(remote, EventsUrl(call.name), reachable)
        IN  /\ reads' = Append(reads, ReadOf(EventsUrl(call.name), reachable, d))
            /\ IF d.raised THEN Abort(Raise("ConnectionError"))
               ELSE /\ building' = [building EXCEPT !.events = d.json]
                    /\ pc' = "listing"
                    /\ UNCHANGED <<ret, dirExists, files, held>>
    /\ UNCHANGED <<remote, nChanges, nCalls, call, prev, files0, stdout>>
    /\ UNCHANGED statVars

\* self.sessions = get_session_for(name): sessions == 'all', the listing
ReadListing ==
    /\ pc = "listing"
    /\ \E reachable \in BOOLEAN :
        LET d == download_json_data_from(remote, ShallowUrl(call.name), reachable)
        IN  /\ reads' = Append(reads, ReadOf(ShallowUrl(call.name), reachable, d))
            /\ IF d.raised THEN Abort(Raise("ConnectionError"))
               ELSE \E keys \in Orderings(DOMAIN d.json \ {MetaDataKey}) :
                      LET sessions == get_session_dates_for(d.json, keys, FALSE)
                      IN  IF sessions.kind = "raise" THEN Abort(sessions)
                          ELSE /\ building' = [building EXCEPT !.todo = sessions.list]
                               /\ pc' = IF sessions.list = << >> THEN "dates"
                                        ELSE "session"
                               /\ UNCHANGED <<ret, dirExists, files, held>>
    /\ UNCHANGED <<remote, nChanges, nCalls, call, prev, files0, stdout>>
    /\ UNCHANGED statVars

\* get_session_for: user_data[session] = _get_single(session, user)
ReadSession ==
    /\ pc = "session"
    /\ \E reachable \in BOOLEAN :
        LET session == Head(building.todo)
            url == SessionUrl(call.name, session)
            d == download_json_data_from(remote, url, reachable)
            s == Session(d.json)
        IN  /\ reads' = Append(reads, ReadOf(url, reachable, d))
            /\ IF d.raised THEN Abort(Raise("ConnectionError"))
               ELSE IF ~s.ok THEN Abort(s.val)
               ELSE /\ building' = [building EXCEPT
                                      !.sessions = (session :> s.val) @@ @,
                                      !.todo = Tail(@)]
                    /\ pc' = IF Tail(building.todo) = << >> THEN "dates" ELSE "session"
                    /\ UNCHANGED <<ret, dirExists, files, held>>
    /\ UNCHANGED <<remote, nChanges, nCalls, call, prev, files0, stdout>>
    /\ UNCHANGED statVars

\* self.dates = get_session_dates_for(name); then, in get_user, save(user)
\* and return(user).
ReadDates ==
    /\ pc = "dates"
    /\ \E reachable \in BOOLEAN :
        LET d == download_json_data_from(remote, ShallowUrl(call.name), reachable)
        IN  /\ reads' = Append(reads, ReadOf(ShallowUrl(call.name), reachable, d))
            /\ IF d.raised THEN Abort(Raise("ConnectionError"))
               ELSE \E keys \in Orderings(DOMAIN d.json \ {MetaDataKey}) :
                      LET dates == get_session_dates_for(d.json, keys, FALSE)
                          user == [user_name |-> call.name,
                                   profile |-> building.profile,
                                   events |-> building.events,
                                   sessions |-> building.sessions,
                                   dates |-> dates.list]
                      IN  IF dates.kind = "raise" THEN Abort(dates)
                          ELSE /\ pc' = "idle"
                               /\ building' = NoBuild
                               /\ UNCHANGED dirExists
                               /\ IF call.op = "get_user"
                                  THEN \E written \in WriteOutcomes :
                                         LET r == save(files, user, TRUE, written)
                                         IN  /\ files' = r.files
                                             /\ ret' = IF r.ret = None THEN Return(user)
                                                       ELSE r.ret
                                             /\ held' = IF r.ret = None THEN Return(user)
                                                        ELSE held
                                  ELSE /\ ret' = Return(user)
                                       /\ held' = Return(user)
                                       /\ UNCHANGED files
    /\ UNCHANGED <<remote, nChanges, nCalls, call, prev, files0, stdout>>
    /\ UNCHANGED statVars

(***************************************************************************)
(* The statistics specification: a signal and a window are drawn, then the *)
(* operations are applied to them.                                         *)
(***************************************************************************)
NoStat == [op |-> "none", raised |-> "", out |-> <<>>]

InitStatVars ==
    /\ signal = <<>>
    /\ window = 1
    /\ stat = NoStat

CallSD ==
    /\ stat' = [op |-> "SD", raised |-> "", out |-> SD(signal, window)]
    /\ UNCHANGED <<signal, window>>
    /\ UNCHANGED cacheVars

CallCSI ==
    /\ \E from_watch \in BOOLEAN :
          /\ from_watch => \A i \in 1..Len(signal) : 60 % signal[i] = 0
          /\ stat' = [op |-> "CSI", raised |-> "", out |-> CSI(signal, window, from_watch)]
    /\ UNCHANGED <<signal, window>>
    /\ UNCHANGED cacheVars

CallWindowedSampleVariance ==
    /\ stat' = [op |-> "windowed_sample_variance", raised |-> "",
                out |-> windowed_sample_variance(signal, window)]
    /\ UNCHANGED <<signal, window>>
    /\ UNCHANGED cacheVars

CallMarkHighVar ==
    /\ stat' = [op |-> "mark_high_var", raised |-> "", out |-> mark_high_var(signal, window)]
    /\ UNCHANGED <<signal, window>>
    /\ UNCHANGED cacheVars

InitStats ==
    /\ InitCacheVars
    /\ signal \in Signals
    /\ window \in 1..MaxWindow
    /\ stat = NoStat

NextStats ==
    \/ CallSD
    \/ CallCSI
    \/ CallWindowedSampleVariance
    \/ CallMarkHighVar

SpecStats == InitStats /\ [][NextStats]_vars

(***************************************************************************)
(* The cache specification.                                                *)
(***************************************************************************)
Init == InitCacheVars /\ InitStatVars

Next ==
    \/ RemoteChange
    \/ CallGetUser
    \/ CallUser
    \/ CallSave
    \/ CallLoad
    \/ ReadProfile
    \/ ReadEvents
    \/ ReadListing
    \/ ReadSession
    \/ ReadDates

Spec == Init /\ [][Next]_vars

(***************************************************************************)
(* The session-date specification: get_session_dates_for on the user nodes *)
(* a store can hold.                                                       *)
(***************************************************************************)
DateTokens == Tokens \cup {Jan24b}

InitDates ==
    /\ InitLocal
    /\ \E p \in ProfileValues, e \in {JNull, JObj(EventsA)}, ds \in SUBSET DateTokens :
          remote = [InitRemote EXCEPT
                      !["SM1"] = [Profile |-> p, Events |-> e, sessions |-> ds]]
    /\ InitStatVars

NextDates == CallGetSessionDates

SpecDates == InitDates /\ [][NextDates]_vars

(***************************************************************************)
(* Properties of the cache (specification Spec).                           *)
(***************************************************************************)
\* get_user(name, reload=False) called right after a save(u) of that name
\* that wrote the file.
FetchAfterStore ==
    /\ call.op = "get_user" /\ call.flag = FALSE
    /\ prev.op = "save" /\ prev.flag = TRUE /\ prev.ok
    /\ prev.name = call.name

\* C1: round trip through the cache: after save(u), get_user(u.user_name,
\* reload=False) returns at once a User equal field by field to u, loaded
\* from the file with no remote read, whether or not the name is in
\* user_list.
C1_RoundTrip ==
    FetchAfterStore =>
        /\ pc = "idle"
        /\ ret.kind = "User"
        /\ ret.user.user_name = prev.arg.user.user_name
        /\ ret.user.profile = prev.arg.user.profile
        /\ ret.user.events = prev.arg.user.events
        /\ ret.user.sessions = prev.arg.user.sessions
        /\ ret.user.dates = prev.arg.user.dates
        /\ reads = << >>

C1_Witness ==
    /\ FetchAfterStore
    /\ call.name \notin user_list
    /\ ret = prev.arg
    /\ ret.user.dates # << >>

\* C2: a write to the cache is atomic for the caller: every file of folder
\* 'Users' holds a complete pickled User, also after a save that failed part
\* way, so that a later load never meets a truncated or part-written entry.
C2_AtomicWrite ==
    \A u \in Names :
        _is_file_in_directory(files, u) => load(files, u).kind = "User"

\* save(user, update=False) called while the user's file exists.
StoreNoOverwrite ==
    /\ call.op = "save" /\ call.flag = FALSE
    /\ _is_file_in_directory(files0, call.name)

\* C3: save(user, update=False) on a user whose file exists is a no-op: no
\* file of folder 'Users' changes, the user's and the others', and nothing is
\* raised.
C3_NoOverwriteIsNoOp ==
    StoreNoOverwrite => files = files0 /\ ret = None

C3_Witness ==
    /\ StoreNoOverwrite
    /\ load(files0, call.name) # held
    /\ files = files0

\* get_user for a name outside user_list, the cache not being used: no file
\* for the name, or reload.
FetchUnknown ==
    /\ call.op = "get_user"
    /\ call.name \notin user_list
    /\ (~_is_file_in_directory(files0, call.name) \/ call.flag)

\* C4: get_user for a name outside user_list, when the cache is not used,
\* reports that the user does not exist, returns None and leaves every file
\* of folder 'Users' as it was.
C4_UnknownUserNotFound ==
    FetchUnknown =>
        /\ pc = "idle"
        /\ ret = None
        /\ \E i \in 1..Len(stdout) : stdout[i] = "does not exist in the database"
        /\ files = files0

C4_Witness ==
    /\ FetchUnknown
    /\ call.flag /\ _is_file_in_directory(files0, call.name)
    /\ ret = None /\ files = files0

\* A download of the current get_user call could not reach the store.
FetchReadFailed ==
    /\ call.op = "get_user"
    /\ \E i \in 1..Len(reads) : ~reads[i].ok

\* C5: when a download fails during the assembly get_user starts, the call
\* fails as a whole: it raises, returns no User, and every file of folder
\* 'Users' is what it was before the call.
C5_FailedReadFailsCall ==
    FetchReadFailed =>
        /\ pc = "idle"
        /\ ret.kind = "raise"
        /\ files = files0

C5_Witness ==
    /\ FetchReadFailed
    /\ Len(reads) > 1
    /\ _is_file_in_directory(files0, call.name)
    /\ ret.kind = "raise" /\ files = files0

\* C6: the assembly tolerates an empty profile response: Profile.__init__
\* succeeds with dob, gender, height and weight empty and the assembly goes
\* on to the events.
C6_EmptyProfileTolerated ==
    (call.op \in {"User", "get_user"} /\ Len(reads) = 1
        /\ reads[1].ok /\ reads[1].empty) =>
        /\ pc = "events"
        /\ building.profile = [dob |-> "", gender |-> "", height |-> "", weight |-> ""]

(***************************************************************************)
(* Properties of get_session_dates_for (specification SpecDates).          *)
(***************************************************************************)
\* The two digits of a date at 0-based offset k, as a number.
Field(date, k) == (date[k + 1] - 48) * 10 + (date[k + 2] - 48)

\* date a is before date b: by year, month, day, hour, minute, second.
Before(a, b) ==
    LET ka == << Field(a, 4), Field(a, 2), Field(a, 0), Field(a, 6), Field(a, 8), Field(a, 10) >>
        kb == << Field(b, 4), Field(b, 2), Field(b, 0), Field(b, 6), Field(b, 8), Field(b, 10) >>
    IN  \E i \in 1..6 : (\A j \in 1..(i - 1) : ka[j] = kb[j]) /\ ka[i] < kb[i]

\* get_session_dates_for(user) got a listing that holds the MetaData key.
DatesListed ==
    /\ call.op = "get_session_dates_for" /\ call.flag = FALSE
    /\ reads[1].ok
    /\ (~remote[call.name].Profile.null \/ ~remote[call.name].Events.null)

\* C7: on a listing holding the MetaData key and any set of session dates,
\* get_session_dates_for returns exactly those dates, MetaData left out, in
\* increasing order of (year, month, day, hour, minute, second).
C7_DatesChronological ==
    DatesListed =>
        /\ ret.kind = "list"
        /\ {ret.list[i] : i \in 1..Len(ret.list)} = remote[call.name].sessions
        /\ Len(ret.list) = Cardinality(remote[call.name].sessions)
        /\ \A i, j \in 1..Len(ret.list) : i < j => Before(ret.list[i], ret.list[j])

C7_Witness ==
    /\ DatesListed
    /\ ret.kind = "list" /\ Len(ret.list) >= 3
    /\ \E i, j \in 1..Len(ret.list) :
          i < j /\ ret.list[i] = Dec23 /\ ret.list[j] = Jan24

(***************************************************************************)
(* Properties of the windowed statistics (specification SpecStats).        *)
(***************************************************************************)
\* C8: for a signal of length N and num_points w with N >= w, SD returns SD1
\* and SD2 series of exactly n = N - w + 1 values, one per sliding window.
C8_SDLength ==
    (stat.op = "SD" /\ Len(signal) >= window) =>
        /\ Len(stat.out[1]) = Len(signal) - window + 1
        /\ Len(stat.out[2]) = Len(signal) - window + 1

\* C9: when the signal is shorter than the window, SD, CSI and
\* windowed_sample_variance fail with an insufficient-samples error and
\* return no series.
C9_ShortSignalFails ==
    (stat.op \in {"SD", "CSI", "windowed_sample_variance"} /\ Len(signal) < window) =>
        stat.raised = "InsufficientSamplesError"

\* C10: for a signal of length N and window w with N >= w, the mask of
\* mark_high_var has length exactly N and its first w - 1 entries are false.
C10_MaskAligned ==
    (stat.op = "mark_high_var" /\ Len(signal) >= window) =>
        /\ Len(stat.out) = Len(signal)
        /\ \A i \in 1..(window - 1) : stat.out[i] = FALSE

\* The first differences of the samples s[lo..hi] (1-based, inclusive).
FirstDifferences(s, lo, hi) == [j \in 1..(hi - lo) |-> s[lo + j] - s[lo + j - 1]]

\* The samples s[lo..hi] are one constant run.
ConstantRun(s, lo, hi) == \A j \in lo..hi : s[j] = s[lo]

\* The window of `window` samples that ends at 1-based index k holds the jump.
HoldsJump(k) ==
    /\ k >= window
    /\ ~ConstantRun(signal, k - window + 1, k)

\* C11: value i of windowed_sample_variance is the variance of the first
\* differences of exactly the samples of window i, signal[i .. i+w-1] (held
\* in the scale of the series: both sides times w^2 * (w-1)^2); so a window
\* inside a constant run yields 0, and on the step signal with window 4 the
\* mask of mark_high_var flags exactly the indices whose window holds the
\* jump.
C11_WindowVariance ==
    /\ (stat.op = "windowed_sample_variance" /\ window >= 2 /\ Len(signal) >= window) =>
          \A i \in 1..Len(stat.out) :
             /\ stat.out[i] * (window - 1) * (window - 1)
                  = window * window
                      * ScaledVar(FirstDifferences(signal, i, i + window - 1))
             /\ ConstantRun(signal, i, i + window - 1) => stat.out[i] = 0
    /\ (stat.op = "mark_high_var" /\ signal = JumpSignal /\ window = 4) =>
          /\ Len(stat.out) = Len(signal)
          /\ \A k \in 1..Len(stat.out) : stat.out[k] = HoldsJump(k)

\* The signal alternates between two distinct values.
Alternating(s) ==
    /\ Len(s) >= 2
    /\ s[1] # s[2]
    /\ \A i \in 3..Len(s) : s[i] = s[i - 2]

\* SD or CSI applied to AlternatingBeats with num_points = 3.
AlternatingCase(op) == stat.op = op /\ signal = AlternatingBeats /\ window = 3

\* C12: for the beats 0.8, 0.9, 0.8, 0.9, 0.8, 0.9 with num_points = 3 (and
\* for every signal that alternates between two distinct values, with
\* num_points >= 2) every value of the SD2 series is 0 and every value of the
\* SD1 series is strictly greater than 0, so SD1 > SD2 throughout and every
\* value of CSI = SD2/SD1 is 0.
C12_AlternatingSD ==
    /\ (stat.op = "SD" /\ Alternating(signal) /\ window >= 2) =>
          \A i \in 1..Len(stat.out[1]) :
             stat.out[1][i] > 0 /\ stat.out[2][i] = 0
    /\ (stat.op = "CSI" /\ Alternating(signal) /\ window >= 2) =>
          \A i \in 1..Len(stat.out) :
             stat.out[i][1] = 0 /\ stat.out[i][2] > 0

C12_Witness ==
    /\ AlternatingCase("SD")
    /\ Len(stat.out[1]) >= 1
    /\ \A i \in 1..Len(stat.out[1]) : stat.out[1][i] > stat.out[2][i]

\* C12 as stated: on that signal every SD1 is 0 within a tolerance of
\* 0.01 s (0.1 of the unit, squared: a hundredth of ScaledOne) and every SD2
\* is strictly greater than 0, so SD2 > SD1.
C12_AsStated ==
    AlternatingCase("SD") =>
        \A i \in 1..Len(stat.out[1]) :
           /\ stat.out[1][i] * 100 <= ScaledOne(window)
           /\ stat.out[2][i] > 0
           /\ stat.out[2][i] > stat.out[1][i]

(***************************************************************************)
(* Properties of the assembly User.__init__ (specification Spec).          *)
(***************************************************************************)
\* User.__init__ has run to its end in the current call.
Assembled ==
    /\ call.op \in {"User", "get_user"}
    /\ pc = "idle"
    /\ ret.kind = "User"
    /\ reads # << >>

\* The number of downloads of url made by the current call.
ReadCount(url) == Cardinality({i \in 1..Len(reads) : reads[i].url = url})

\* The dates of a list, as a set.
DateSet(dates) == {dates[i] : i \in 1..Len(dates)}

\* C13: an assembly reads the profile once, the events once and the
\* session-date listing once, then each session of that listing once; no URL
\* is downloaded twice in one assembly.
C13_ReadsOnce ==
    Assembled =>
        /\ ReadCount(ProfileUrl(call.name)) = 1
        /\ ReadCount(EventsUrl(call.name)) = 1
        /\ ReadCount(ShallowUrl(call.name)) = 1
        /\ \A d \in DOMAIN ret.user.sessions : ReadCount(SessionUrl(call.name, d)) = 1
        /\ Len(reads) = 3 + Cardinality(DOMAIN ret.user.sessions)
        /\ \A i, j \in 1..Len(reads) : i # j => reads[i].url # reads[j].url

\* C14: in every User an assembly returns, and in every User held in a file
\* of folder 'Users', the set of dates is the key set of sessions, also when
\* a session is added to or removed from the store during the assembly.
C14_DatesMatchSessions ==
    /\ Assembled => DateSet(ret.user.dates) = DOMAIN ret.user.sessions
    /\ \A u \in Names :
          load(files, u).kind = "User" =>
              DateSet(load(files, u).user.dates) = DOMAIN load(files, u).user.sessions

=============================================================================
